---------------------------- MODULE Spec2Model ----------------------------
(***************************************************************************)
(* A model of overlord_bot.py, the influence-map bot for the Ants AI       *)
(* challenge: the order resolver (issue_orders), the capacity-limited      *)
(* breadth-first propagation (build_influence, add_influence) and the      *)
(* per-turn bot state (visibility counters, waves, the source list).       *)
(***************************************************************************)
EXTENDS Integers, Sequences, FiniteSets, TLC

VARIABLES
    nrows, ncols,             \* module globals, set once by do_setup
    pc,                       \* where the bot is: "new" (loaded), "idle" (set
                              \* up, between calls), or inside a method
    my_ants,                  \* the turn's list of agent tiles; issue_orders
                              \* uses it as its work queue (tiles and None)
    mmap,                     \* the score field handed to the resolver
    \* ---- issue_orders: one activation of the method
    prev_destinations,        \* tiles claimed this turn
    level,                    \* escalation level
    turns_without_order,      \* pops since the last emitted order
    issued,                   \* the orders passed to ants.issue_order, in order
    agents,                   \* history: the list issue_orders was called with
    stays,                    \* history: agents that chose 'stay'
    \* ---- map_influence / add_influence: one source
    amap,                     \* the class of every tile (ants.map)
    stop_locs,                \* module global: the tiles that stop the spread
    source,                   \* the (loc, strength) pair being spread
    bfs,                      \* the locals of build_influence
    imap,                     \* the map add_influence has added the source to
    \* ---- the bot object, from turn to turn
    visibility_map,           \* turns since each tile was last observed
    my_hill, enemy_hill,      \* the stored hills (None until known)
    waves,                    \* the list of waves, each a list of tiles
    wave_dir,                 \* the direction the waves move in
    ilocs,                    \* the (loc, strength) sources of the last turn
    game,                     \* the layout the driver reports
    history                   \* history: per turn, the count and the vision

orderOnly == <<prev_destinations, level, turns_without_order, issued, agents,
               stays>>
orderVars == <<my_ants, mmap, pc, orderOnly>>
influenceOnly == <<amap, stop_locs, source, bfs, imap>>
turnOnly == <<visibility_map, my_hill, enemy_hill, waves, wave_dir, ilocs,
              game, history>>
vars == <<nrows, ncols, orderVars, influenceOnly, turnOnly>>

-----------------------------------------------------------------------------
(* Bounds of the model *)

MaxAnts == 4
MaxScore == 1

(* Toroidal grids the resolver is exercised on (rows, cols). *)
OrderGrids == {<<2, 2>>, <<2, 3>>}

-----------------------------------------------------------------------------
(* Grid and wrap utility *)

None == <<>>

TilesOf(rows, cols) == (0 .. rows - 1) \X (0 .. cols - 1)

Tiles == TilesOf(nrows, ncols)

wrap_loc(loc) == <<loc[1] % nrows, loc[2] % ncols>>

(* The direction table shared by Wave.move and the driver's AIM. *)
move(direction) ==
    CASE direction = "n" -> <<-1, 0>>
      [] direction = "s" -> <<1, 0>>
      [] direction = "e" -> <<0, 1>>
      [] direction = "w" -> <<0, -1>>

(* ants.destination(loc, direction): one wrapped step. *)
destination(loc, direction) ==
    wrap_loc(<<loc[1] + move(direction)[1], loc[2] + move(direction)[2]>>)

Range(s) == {s[i] : i \in DOMAIN s}

-----------------------------------------------------------------------------
(* issue_orders *)

directions == <<"n", "s", "e", "w", "stay">>

(* surrounding = [ants.destination(loc, d) for d in directions] + [loc] *)
surrounding(loc) ==
    <<destination(loc, "n"), destination(loc, "s"), destination(loc, "e"),
      destination(loc, "w"), loc>>

(* influences = [mmap[r][c] for r, c in surrounding] *)
influences(loc) ==
    <<mmap[destination(loc, "n")], mmap[destination(loc, "s")],
      mmap[destination(loc, "e")], mmap[destination(loc, "w")], mmap[loc]>>

(* Mutant: reverse=True is lost, the candidates are ranked worst first. *)
Precedes_Ascending(infl, j, i) == infl[j] < infl[i] \/ (infl[j] = infl[i] /\ j < i)

(* sorted(zip(influences, range(5)), reverse=True): pair (s, i) precedes     *)
(* (t, j) when s > t, or s = t and i > j.                                  *)
Precedes(infl, j, i) == infl[j] > infl[i] \/ (infl[j] = infl[i] /\ j > i)

(* max_idx = [i for _, i in sorted(...)][level] *)
max_idx(loc, lvl) ==
    CHOOSE i \in 1 .. 5 :
        \E infl \in {influences(loc)} :
            Cardinality({j \in 1 .. 5 : Precedes(infl, j, i)}) = lvl

(* line 364: move_loc = surrounding[max_idx] *)
move_loc(loc, lvl) == surrounding(loc)[max_idx(loc, lvl)]

(* Mutant: the test of line 367 is lost. *)
Occupied_Skipped(tile, rest) == FALSE

(* line 367: move_loc in my_ants *)
Occupied(tile, rest) == tile \in Range(rest)

(* Mutant: the test of line 373 is lost. *)
Claimed_Skipped(tile) == FALSE

(* line 373: move_loc in prev_destinations *)
Claimed(tile) == tile \in prev_destinations

(* Mutant: lines 374-375 are lost, the agent is requeued without a marker. *)
WithMarker_Forgotten(rest) == rest

(* lines 374-376: the marker is appended unless one is pending *)
WithMarker(rest) == IF None \in Range(rest) THEN rest ELSE Append(rest, None)

(* Mutant: the counter test holds only at the threshold itself. *)
NeedsEscalation_AtThreshold(loc, rest) ==
    loc = None \/ turns_without_order = Len(rest) + 1

(* The loop test of line 342 on the queue left after the pop. *)
NeedsEscalation(loc, rest) ==
    loc = None \/ turns_without_order >= Len(rest) + 1

Popped == pc = "loop" /\ my_ants # <<>>

(* Mutant: the level rises by three; the bound is tested as before. *)
Escalate_ByThree ==
    /\ Popped
    /\ NeedsEscalation(Head(my_ants), Tail(my_ants))
    /\ level + 1 <= 4
    /\ level' = level + 3
    /\ my_ants' = Tail(my_ants)
    /\ UNCHANGED <<prev_destinations, turns_without_order, mmap, issued, pc,
                   agents, stays, nrows, ncols, influenceOnly, turnOnly>>

(* lines 342-347, level <= 4 after the rise: continue *)
Escalate ==
    /\ Popped
    /\ NeedsEscalation(Head(my_ants), Tail(my_ants))
    /\ level + 1 <= 4
    /\ level' = level + 1
    /\ my_ants' = Tail(my_ants)
    /\ UNCHANGED <<prev_destinations, turns_without_order, mmap, issued, pc,
                   agents, stays, nrows, ncols, influenceOnly, turnOnly>>

(* lines 342-345, level > 4 after the rise: break *)
GiveUp ==
    /\ Popped
    /\ NeedsEscalation(Head(my_ants), Tail(my_ants))
    /\ level + 1 > 4
    /\ level' = level + 1
    /\ my_ants' = Tail(my_ants)
    /\ pc' = "done"
    /\ UNCHANGED <<prev_destinations, turns_without_order, mmap, issued,
                   agents, stays, nrows, ncols, influenceOnly, turnOnly>>

(* lines 360-362: the level-th candidate is the agent's own tile *)
Stay(loc, rest, idx) ==
    /\ directions[idx] = "stay"
    /\ prev_destinations' = prev_destinations \cup {loc}
    /\ stays' = stays \cup {loc}
    /\ my_ants' = rest
    /\ UNCHANGED <<level, turns_without_order, issued>>

(* lines 367-370: the tile holds an agent that is still queued *)
RequeueOccupied(loc, rest, idx) ==
    /\ directions[idx] # "stay"
    /\ Occupied(surrounding(loc)[idx], rest)
    /\ my_ants' = Append(rest, loc)
    /\ turns_without_order' = turns_without_order + 1
    /\ UNCHANGED <<prev_destinations, level, issued, stays>>

(* lines 373-377: the tile was claimed earlier in the turn *)
RequeueClaimed(loc, rest, idx) ==
    /\ directions[idx] # "stay"
    /\ ~Occupied(surrounding(loc)[idx], rest)
    /\ Claimed(surrounding(loc)[idx])
    /\ my_ants' = Append(WithMarker(rest), loc)
    /\ UNCHANGED <<prev_destinations, level, turns_without_order, issued, stays>>

(* lines 380-383: the order is emitted *)
Go(loc, rest, idx) ==
    /\ directions[idx] # "stay"
    /\ ~Occupied(surrounding(loc)[idx], rest)
    /\ ~Claimed(surrounding(loc)[idx])
    /\ prev_destinations' = prev_destinations \cup {surrounding(loc)[idx]}
    /\ turns_without_order' = 0
    /\ issued' = Append(issued, <<loc, directions[idx]>>)
    /\ my_ants' = rest
    /\ UNCHANGED <<level, stays>>

(* lines 337-383 for a pop that is neither a marker nor an escalation: the *)
(* candidates are ranked once and the level-th one decides the branch.     *)
Resolve ==
    /\ Popped
    /\ ~NeedsEscalation(Head(my_ants), Tail(my_ants))
    /\ \E loc \in {Head(my_ants)}, rest \in {Tail(my_ants)} :
       \E idx \in {max_idx(loc, level)} :
          \/ Stay(loc, rest, idx)
          \/ RequeueOccupied(loc, rest, idx)
          \/ RequeueClaimed(loc, rest, idx)
          \/ Go(loc, rest, idx)
    /\ UNCHANGED <<mmap, pc, agents, nrows, ncols, influenceOnly, turnOnly>>

(* line 336: the queue is empty, the method returns *)
Return ==
    /\ pc = "loop"
    /\ my_ants = <<>>
    /\ pc' = "done"
    /\ UNCHANGED <<my_ants, prev_destinations, level, turns_without_order,
                   mmap, issued, agents, stays, nrows, ncols, influenceOnly, turnOnly>>

(* Lists of n distinct tiles. *)
DistinctLists(S, n) ==
    {s \in [1 .. n -> S] : \A i, j \in 1 .. n : i # j => s[i] # s[j]}

(* The module and the bot object as loaded: nrows = ncols = 0 (lines 83-84) *)
(* and no method active.                                                   *)
Init ==
    /\ nrows = 0
    /\ ncols = 0
    /\ agents = <<>>
    /\ mmap = <<>>
    /\ my_ants = <<>>
    /\ prev_destinations = {}
    /\ level = 0
    /\ turns_without_order = 0
    /\ issued = <<>>
    /\ stays = {}
    /\ pc = "new"
    /\ amap = <<>>
    /\ stop_locs = {}
    /\ source = <<>>
    /\ bfs = <<>>
    /\ imap = <<>>
    /\ visibility_map = <<>>
    /\ my_hill = None
    /\ enemy_hill = None
    /\ waves = <<>>
    /\ wave_dir = None
    /\ ilocs = <<>>
    /\ game = <<>>
    /\ history = <<>>

(* do_setup, lines 128-130: the grid size becomes global. *)
SetupOrders ==
    /\ pc = "new"
    /\ \E g \in OrderGrids : nrows' = g[1] /\ ncols' = g[2]
    /\ pc' = "idle"
    /\ UNCHANGED <<my_ants, prev_destinations, level, turns_without_order,
                   mmap, issued, agents, stays, influenceOnly, turnOnly>>

(* issue_orders(my_ants, ants, mmap) is entered: lines 331-334. The torus   *)
(* is translation-invariant, so the first agent is put on tile (0, 0).     *)
EnterIssueOrders ==
    /\ pc = "idle"
    /\ \E n \in 0 .. MaxAnts : agents' \in DistinctLists(Tiles, n)
    /\ agents' # <<>> => agents'[1] = <<0, 0>>
    /\ mmap' \in [Tiles -> 0 .. MaxScore]
    /\ my_ants' = agents'
    /\ prev_destinations' = {}
    /\ level' = 0
    /\ turns_without_order' = 0
    /\ issued' = <<>>
    /\ stays' = {}
    /\ pc' = "loop"
    /\ UNCHANGED <<nrows, ncols, influenceOnly, turnOnly>>

NextOrders ==
    \/ SetupOrders
    \/ EnterIssueOrders
    \/ Escalate
    \/ GiveUp
    \/ Resolve
    \/ Return

SpecOrders == Init /\ [][NextOrders]_vars

(* The resolver under the fairness of a running method: a sequential loop  *)
(* that can take a step takes it.                                          *)
FairSpecOrders == SpecOrders /\ WF_vars(NextOrders)

-----------------------------------------------------------------------------
(* Properties of issue_orders *)

(* The tile an emitted order (loc, direction) moves its agent to. *)
OrderDestination(o) == destination(o[1], o[2])

HasOrder(a) == \E i \in DOMAIN issued : issued[i][1] = a

(* The tile an agent is on after the turn: moved by its order, or where it was. *)
FinalTile(a) ==
    IF HasOrder(a)
      THEN OrderDestination(issued[CHOOSE i \in DOMAIN issued : issued[i][1] = a])
      ELSE a

(* The tile an agent prefers at level 0, or None when it prefers to stay. *)
FirstChoice(a) == IF max_idx(a, 0) = 5 THEN None ELSE move_loc(a, 0)

(* An agent that was neither recorded as staying nor given an order. *)
Unresolved(a) == a \notin stays /\ ~HasOrder(a)

(* C1: the orders emitted by one run of issue_orders have pairwise        *)
(* distinct destination tiles, whatever the score field and agent list.    *)
C1_DistinctDestinations ==
    \A i, j \in DOMAIN issued :
        i # j => OrderDestination(issued[i]) # OrderDestination(issued[j])

(* C1 witness: a finished run that emitted two orders although two agents  *)
(* preferred the same tile.                                                *)
C1_Witness ==
    /\ pc = "done"
    /\ Len(issued) >= 2
    /\ \E a, b \in Range(agents) :
        a # b /\ FirstChoice(a) # None /\ FirstChoice(a) = FirstChoice(b)

(* C2: after a run no two agents have the same final tile: no order       *)
(* targets a tile on which another agent remains.                          *)
C2_NoSharedFinalTile ==
    pc = "done" =>
        \A a, b \in Range(agents) : a # b => FinalTile(a) # FinalTile(b)

(* C2 witness: a finished run in which an agent that preferred the tile of *)
(* an agent that remains there was given an order all the same.            *)
C2_Witness ==
    /\ pc = "done"
    /\ \E a, b \in Range(agents) :
        /\ a # b
        /\ HasOrder(a)
        /\ ~HasOrder(b)
        /\ FirstChoice(a) = b

(* C3: every run of issue_orders terminates. *)
C3_Terminates == <>(pc = "done")

(* C3 witness: a run that ended by giving up, its level above 4, after     *)
(* agents had been requeued for wanting occupied tiles.                    *)
C3_Witness == pc = "done" /\ level > 4 /\ turns_without_order > 0

(* C4: an agent ends the run unresolved only when the escalation level    *)
(* has exceeded 4.                                                         *)
C4_UnresolvedOnlyAfterGiveUp ==
    pc = "done" => \A a \in Range(agents) : Unresolved(a) => level > 4

-----------------------------------------------------------------------------
(* Tile classes and the two tables (lines 48-76) *)

ANTS == 0
DEAD == -1
LAND == -2
FOOD == -3
WATER == -4
MY_HILL == 10
ALLY_ANT == 20
ENEMY_HILL == 30
ENEMY_ANT == 40
WAVE == 50
NOT_VISIBLE == 60

(* Exact fractions <<numerator, denominator>>, denominator > 0, in lowest  *)
(* terms: the values strength / (dist + 1) of add_influence.               *)
RECURSIVE GCD(_, _)
GCD(a, b) == IF b = 0 THEN a ELSE GCD(b, a % b)

Abs(x) == IF x < 0 THEN -x ELSE x

Frac(n, d) ==
    LET g == GCD(Abs(n), d) IN IF g = 0 THEN <<0, 1>> ELSE <<n \div g, d \div g>>

FracAdd(x, y) == Frac(x[1] * y[2] + y[1] * x[2], x[2] * y[2])

Zero == Frac(0, 1)

(* influence_values, lines 63-68 *)
influence_keys == {FOOD, ENEMY_HILL, WAVE, NOT_VISIBLE}

influence_values(cls) ==
    CASE cls = FOOD -> Frac(20, 1)
      [] cls = ENEMY_HILL -> Frac(50, 1)
      [] cls = WAVE -> Frac(5, 1)
      [] cls = NOT_VISIBLE -> Frac(1, 10)

(* number_of_influences.get(cls, default), lines 71-76 and 205 *)
number_of_influences(cls, default) ==
    CASE cls = FOOD -> 1
      [] cls = WAVE -> 2
      [] cls = NOT_VISIBLE -> 1
      [] cls = MY_HILL -> 4
      [] OTHER -> default

-----------------------------------------------------------------------------
(* map_influence: build_influence, lines 200-235 *)

(* line 211: the order in which the neighbours of a tile are examined *)
neighbour_steps == <<<<0, 1>>, <<0, -1>>, <<1, 0>>, <<-1, 0>>>>

(* lines 212-213 *)
neighbour(loc, i) ==
    wrap_loc(<<loc[1] + neighbour_steps[i][1], loc[2] + neighbour_steps[i][2]>>)

(* Mutant: the capacity test of line 220 made strict. *)
CapacityReached_Late(num, cap) == num > cap

(* line 220 *)
CapacityReached(num, cap) == num >= cap

(* Mutant: old_locs is not consulted, a tile is added whenever it is seen. *)
absorb_Again(acc, add, stops) ==
    IF add \notin stops
      THEN [acc EXCEPT !.old_locs = @ \cup {add}, !.new_locs = Append(@, add)]
      ELSE acc

(* lines 224-226: a tile that is new and does not stop the spread is added *)
absorb(acc, add, stops) ==
    IF add \notin acc.old_locs /\ add \notin stops
      THEN [acc EXCEPT !.old_locs = @ \cup {add}, !.new_locs = Append(@, add)]
      ELSE acc

(* Mutant: the examined tile is added to the layer before the capacity is  *)
(* tested.                                                                 *)
visit_AddFirst(acc, add, ants, stops, cap) ==
    IF add \in ants
      THEN IF CapacityReached(acc.num_ants + 1, cap)
             THEN [absorb(acc, add, stops) EXCEPT !.num_ants = @ + 1, !.hit = add]
             ELSE [absorb(acc, add, stops) EXCEPT !.num_ants = @ + 1,
                                                  !.met = @ \cup {add}]
      ELSE absorb(acc, add, stops)

(* lines 215-226: one neighbour `add` is examined. acc holds new_locs,      *)
(* old_locs and num_ants, and two history fields: met, the agent tiles     *)
(* encountered before, and hit, the tile whose encounter made the function *)
(* return (None while it runs).                                            *)
visit(acc, add, ants, stops, cap) ==
    IF add \in ants
      THEN IF CapacityReached(acc.num_ants + 1, cap)
             THEN [acc EXCEPT !.num_ants = @ + 1, !.hit = add]
             ELSE [absorb(acc, add, stops) EXCEPT !.num_ants = @ + 1,
                                                  !.met = @ \cup {add}]
      ELSE absorb(acc, add, stops)

(* lines 210-226: the two nested for loops from the k-th examination on,   *)
(* stopping at the return of line 222.                                     *)
RECURSIVE examine(_, _, _, _, _, _)
examine(queue, k, acc, ants, stops, cap) ==
    IF k > 4 * Len(queue) \/ acc.hit # None
      THEN acc
      ELSE examine(queue, k + 1,
                   visit(acc, neighbour(queue[((k - 1) \div 4) + 1], ((k - 1) % 4) + 1),
                         ants, stops, cap),
                   ants, stops, cap)

(* lines 201-205 *)
build_start(start_loc, cap) ==
    [influence_locs |-> <<<<start_loc>>>>, queue |-> <<start_loc>>,
     old_locs |-> {start_loc}, num_ants |-> 0, max_ants |-> cap,
     done |-> FALSE, hit |-> None, met |-> {}]

(* lines 221-222, 228-233: what the pass over the queue leads to *)
after_pass(b, acc) ==
    IF acc.hit # None
      THEN [b EXCEPT !.influence_locs = Append(@, acc.new_locs),
                     !.old_locs = acc.old_locs, !.num_ants = acc.num_ants,
                     !.met = acc.met, !.hit = acc.hit, !.done = TRUE]
      ELSE IF acc.new_locs = <<>>
        THEN [b EXCEPT !.queue = <<>>, !.old_locs = acc.old_locs,
                       !.num_ants = acc.num_ants, !.met = acc.met,
                       !.done = TRUE]
        ELSE [b EXCEPT !.influence_locs = Append(@, acc.new_locs),
                       !.queue = acc.new_locs, !.old_locs = acc.old_locs,
                       !.num_ants = acc.num_ants, !.met = acc.met]

(* lines 207-233: one iteration of `while True` *)
expand(b, ants, stops) ==
    CHOOSE r \in {after_pass(b, acc) :
                    acc \in {examine(b.queue, 1,
                                     [new_locs |-> <<>>, old_locs |-> b.old_locs,
                                      num_ants |-> b.num_ants, hit |-> None,
                                      met |-> b.met],
                                     ants, stops, b.max_ants)}} : TRUE

RECURSIVE run_build(_, _, _)
run_build(b, ants, stops) ==
    IF b.done THEN b ELSE run_build(expand(b, ants, stops), ants, stops)

(* build_influence(start_loc) inside map_influence(amap, locs, my_ants) *)
build_influence(start_loc, map, ants, stops) ==
    run_build(build_start(start_loc,
                          number_of_influences(map[start_loc], Len(ants))),
              Range(ants), stops).influence_locs

-----------------------------------------------------------------------------
(* add_influence, lines 240-250 *)

Count(t, locs) == Cardinality({j \in DOMAIN locs : locs[j] = t})

(* What one (influence, strength) pair adds to tile t: strength/(dist + 1) *)
(* for each occurrence of t in layer dist, from layer index d on.          *)
RECURSIVE contribution(_, _, _, _)
contribution(influence, strength, t, d) ==
    IF d > Len(influence)
      THEN Zero
      ELSE LET rest == contribution(influence, strength, t, d + 1)
           IN IF Count(t, influence[d]) = 0
                THEN rest
                ELSE FracAdd(Frac(strength[1] * Count(t, influence[d]),
                                  strength[2] * d), rest)

RECURSIVE contributions(_, _, _)
contributions(influences_, t, i) ==
    IF i > Len(influences_)
      THEN Zero
      ELSE FracAdd(contribution(influences_[i][1], influences_[i][2], t, 1),
                   contributions(influences_, t, i + 1))

add_influence(imap_, influences_) ==
    [t \in DOMAIN imap_ |-> FracAdd(imap_[t], contributions(influences_, t, 1))]

(* map_zeros, lines 132-140 *)
map_zeros == [t \in Tiles |-> Zero]

-----------------------------------------------------------------------------
(* One source spread by map_influence and added by add_influence *)

MaxWater == 1
MaxAgents == 2

InfluenceGrids == {<<4, 4>>}

(* The torus is translation-invariant: the source is put on tile (0, 0). *)
Origin == <<0, 0>>

(* The subsets of S of at most n elements. *)
RECURSIVE UpTo(_, _)
UpTo(S, n) ==
    IF n = 0 THEN {{}}
    ELSE LET smaller == UpTo(S, n - 1)
         IN smaller \cup {X \cup {t} : X \in smaller, t \in S}

Neighbours(t) == {neighbour(t, i) : i \in 1 .. 4}

(* Water: up to MaxWater tiles anywhere, or the ring of the source's four  *)
(* neighbours.                                                             *)
WaterSets == UpTo(Tiles, MaxWater) \cup {Neighbours(Origin)}

TileBefore(a, b) == a[1] < b[1] \/ (a[1] = b[1] /\ a[2] <= b[2])

(* A set of tiles as a list, in row-major order. *)
RECURSIVE ListOf(_)
ListOf(S) ==
    IF S = {} THEN <<>>
    ELSE LET first == CHOOSE x \in S : \A y \in S : TileBefore(x, y)
         IN <<first>> \o ListOf(S \ {first})

(* Where do_turn takes its sources from: influence_locs (food, enemy hill), *)
(* hill_defense (my hill), the wave members and the frontier tiles.         *)
SourceKinds == {"food", "enemy_hill", "my_hill", "wave", "frontier"}

(* The strength paired with the source's tile: lines 173, 324, 438, 441. *)
strength_of(kind) ==
    CASE kind = "food" -> influence_values(FOOD)
      [] kind = "enemy_hill" -> influence_values(ENEMY_HILL)
      [] kind = "my_hill" -> Frac(50, 1)
      [] kind = "wave" -> influence_values(WAVE)
      [] kind = "frontier" -> Frac(NOT_VISIBLE, 1)

(* Food and hills are not on water, food is not under an agent; a wave     *)
(* member or frontier tile is a coordinate, whatever the tile holds.       *)
source_allowed(kind, W, A) ==
    CASE kind = "food" -> Origin \notin W \cup A
      [] kind \in {"enemy_hill", "my_hill"} -> Origin \notin W
      [] OTHER -> TRUE

(* ants.map after the add_to_map calls of lines 423-429. *)
class_map(kind, W, A) ==
    [t \in Tiles |->
        IF t = Origin /\ kind = "food" THEN FOOD
        ELSE IF t = Origin /\ kind = "enemy_hill" THEN ENEMY_HILL
        ELSE IF t = Origin /\ kind = "my_hill" THEN MY_HILL
        ELSE IF t \in W THEN WATER
        ELSE IF t \in A THEN ALLY_ANT
        ELSE LAND]

SetupInfluence ==
    /\ pc = "new"
    /\ \E g \in InfluenceGrids : nrows' = g[1] /\ ncols' = g[2]
    /\ pc' = "idle"
    /\ UNCHANGED <<my_ants, mmap, orderOnly, influenceOnly, turnOnly>>

(* build_influence(start_loc) is entered for one source: lines 201-205 *)
EnterBuildInfluence ==
    /\ pc = "idle"
    /\ \E W \in WaterSets, kind \in SourceKinds :
       \E A \in UpTo(Tiles \ W, MaxAgents) :
          /\ source_allowed(kind, W, A)
          /\ my_ants' = ListOf(A)
          /\ stop_locs' = W
          /\ amap' = class_map(kind, W, A)
          /\ source' = <<Origin, strength_of(kind)>>
          /\ bfs' = build_start(Origin,
                       number_of_influences(class_map(kind, W, A)[Origin],
                                            Cardinality(A)))
    /\ pc' = "build"
    /\ UNCHANGED <<nrows, ncols, mmap, orderOnly, imap, turnOnly>>

(* lines 220-222: the capacity is reached, the partial layer is appended *)
ReturnAtCapacity(b) == b.done /\ b.hit # None /\ pc' = "returned"

(* lines 230-231: no new tile was found *)
ReturnExhausted(b) == b.done /\ b.hit = None /\ pc' = "returned"

(* line 233: the layer is appended and becomes the queue *)
NextLayer(b) == ~b.done /\ pc' = "build"

(* One iteration of `while True`, lines 207-233. *)
ExpandLayer ==
    /\ pc = "build"
    /\ \E b \in {expand(bfs, Range(my_ants), stop_locs)} :
          /\ bfs' = b
          /\ ReturnAtCapacity(b) \/ ReturnExhausted(b) \/ NextLayer(b)
    /\ UNCHANGED <<nrows, ncols, my_ants, mmap, orderOnly, amap, stop_locs,
                   source, imap, turnOnly>>

(* lines 237, 417, 450: the layers of the source are added to a zero map *)
AddInfluence ==
    /\ pc = "returned"
    /\ imap' = add_influence(map_zeros, <<<<bfs.influence_locs, source[2]>>>>)
    /\ pc' = "added"
    /\ UNCHANGED <<nrows, ncols, my_ants, mmap, orderOnly, amap, stop_locs,
                   source, bfs, turnOnly>>

NextInfluence ==
    \/ SetupInfluence
    \/ EnterBuildInfluence
    \/ ExpandLayer
    \/ AddInfluence

SpecInfluence == Init /\ [][NextInfluence]_vars

-----------------------------------------------------------------------------
(* Properties of build_influence *)

Returned == pc \in {"returned", "added"}

(* The tiles within k steps of the source through tiles that do not stop   *)
(* the spread, for k = 0, 1, ... until nothing is added.                   *)
RECURSIVE Balls(_)
Balls(bs) ==
    LET reached == bs[Len(bs)]
        grown == reached \cup
                 ({neighbour(t, i) : t \in reached, i \in 1 .. 4} \ stop_locs)
    IN IF grown = reached THEN bs ELSE Balls(Append(bs, grown))

Reachable(bs) == bs[Len(bs)]

(* The length of the shortest path from the source to a reachable tile. *)
Dist(bs, t) ==
    (CHOOSE k \in DOMAIN bs : t \in bs[k] /\ (k = 1 \/ t \notin bs[k - 1])) - 1

ReachableAgents(bs) == Range(my_ants) \cap Reachable(bs)

(* The k-th smallest of the agents' distances, when they are distinct. *)
KthDistance(bs, k) ==
    CHOOSE d \in {Dist(bs, a) : a \in ReachableAgents(bs)} :
        Cardinality({a \in ReachableAgents(bs) : Dist(bs, a) <= d}) = k

(* A source of capacity k >= 1 with at least k reachable agents, all at    *)
(* different distances.                                                    *)
IncreasingDistances(bs) ==
    /\ bfs.max_ants >= 1
    /\ Cardinality(ReachableAgents(bs)) >= bfs.max_ants
    /\ \A a, b \in ReachableAgents(bs) : a # b => Dist(bs, a) # Dist(bs, b)

LastLayer == Len(bfs.influence_locs) - 1

(* C5 as stated: with capacity k and m >= k reachable agents at strictly   *)
(* increasing distances d1 < ... < dm, no layer has an index above dk.     *)
C5_NoLayerBeyondKth ==
    Returned =>
        \A bs \in {Balls(<<{source[1]}>>)} :
            IncreasingDistances(bs) => LastLayer <= KthDistance(bs, bfs.max_ants)

(* C5 amended: the same, for agents none of which stands on the source's   *)
(* own tile (d1 >= 1): the tile of the source is never examined as a       *)
(* neighbour before layer 1 is expanded.                                   *)
C5_NoLayerBeyondKth_OffOrigin ==
    Returned /\ source[1] \notin Range(my_ants) =>
        \A bs \in {Balls(<<{source[1]}>>)} :
            IncreasingDistances(bs) => LastLayer <= KthDistance(bs, bfs.max_ants)

(* C5 witness: a spread of capacity 2 stopped by its second agent, the     *)
(* last layer being the one of that agent.                                 *)
C5_Witness ==
    /\ Returned
    /\ source[1] \notin Range(my_ants)
    /\ bfs.max_ants = 2
    /\ bfs.hit # None
    /\ \E bs \in {Balls(<<{source[1]}>>)} :
          IncreasingDistances(bs) /\ LastLayer = KthDistance(bs, 2)

(* C6: the spread halts at capacity only after k distinct agents have been *)
(* encountered; one agent alone never stops a source of capacity k > 1.    *)
C6_CountsDistinctAgents ==
    Returned /\ bfs.hit # None =>
        Cardinality(bfs.met \cup {bfs.hit}) >= bfs.max_ants

InLayer(t, d) == d + 1 \in DOMAIN bfs.influence_locs /\ t \in Range(bfs.influence_locs[d + 1])

InSomeLayer(t) == \E d \in 0 .. LastLayer : InLayer(t, d)

(* The 4x4 scenario: a resource at (0,0), strength 20, capacity 1, one     *)
(* agent at (0,2), no water.                                               *)
Scenario ==
    /\ nrows = 4 /\ ncols = 4
    /\ source = <<<<0, 0>>, Frac(20, 1)>>
    /\ amap[<<0, 0>>] = FOOD
    /\ my_ants = <<<<0, 2>>>>
    /\ stop_locs = {}

(* C7 as stated: in the scenario (0,2) is in layer 2 and is given 20/3;    *)
(* the tile of the agent that exhausts the capacity is in its layer.       *)
C7_AgentTileInLayer ==
    /\ pc = "added" /\ Scenario =>
          InLayer(<<0, 2>>, 2) /\ imap[<<0, 2>>] = Frac(20, 3)
    /\ pc = "added" /\ bfs.hit # None => InSomeLayer(bfs.hit)

(* C7 amended: in the scenario the spread returns when (0,2) is first      *)
(* examined: layer 2 is empty, (0,2) is in no layer and is given 0, while  *)
(* the source's tile is given 20 and its four neighbours 10. In general    *)
(* the tile of an agent whose first encounter exhausts the capacity is in  *)
(* no layer and is given nothing by the source.                            *)
C7_AgentTileLeftOut ==
    /\ pc = "added" /\ Scenario =>
          /\ bfs.influence_locs =
                <<<<<<0, 0>>>>, <<<<0, 1>>, <<0, 3>>, <<1, 0>>, <<3, 0>>>>, <<>>>>
          /\ imap[<<0, 2>>] = Zero
          /\ imap[<<0, 0>>] = Frac(20, 1)
          /\ \A t \in Neighbours(<<0, 0>>) : imap[t] = Frac(10, 1)
    /\ pc = "added" /\ bfs.hit # None /\ bfs.hit \notin bfs.met
                    /\ bfs.hit # source[1] =>
          ~InSomeLayer(bfs.hit) /\ imap[bfs.hit] = Zero

(* C7 witness: the scenario, spread and added. *)
C7_Witness == pc = "added" /\ Scenario /\ bfs.hit = <<0, 2>>

-----------------------------------------------------------------------------
(* do_turn: the state the bot keeps from turn to turn *)

MaxTurns == 5

TurnGrids == {<<4, 4>>}

(* The number of agents the driver reports in a turn. *)
AntCounts == {1, 9, 10, 11}

(* The game layouts do_turn is exercised on: the water, the food, the hill *)
(* lists and the enemy agents the driver reports (the same every turn),    *)
(* and the view radius.                                                    *)
Waters == {{}, {<<1, 1>>}}
Foods == {{}, {<<3, 0>>}}
MyHillLists == {<<>>, <<<<3, 3>>>>}
EnemySides ==
    {[enemy_hills |-> <<>>, enemy_ants |-> <<>>],
     [enemy_hills |-> <<<<<<3, 1>>, 1>>>>, enemy_ants |-> <<<<<<3, 2>>, 1>>>>]}

Games ==
    {[water |-> w, food |-> f, my_hills |-> h, enemy_hills |-> e.enemy_hills,
      enemy_ants |-> e.enemy_ants, viewradius2 |-> 1] :
        w \in Waters, f \in Foods, h \in MyHillLists, e \in EnemySides}

(* int(x ** 0.5) *)
IntSqrt(x) == CHOOSE k \in 0 .. x : k * k <= x /\ x < (k + 1) * (k + 1)

(* The first n tiles, in row-major order, of a list. *)
FirstOf(list, n) == SubSeq(list, 1, n)

(* The agents of a turn: n of the tiles not taken by water, food or an     *)
(* enemy agent.                                                            *)
agents_of(g, n) ==
    FirstOf(ListOf(Tiles \ (g.water \cup g.food
                              \cup {g.enemy_ants[i][1] : i \in DOMAIN g.enemy_ants})), n)

(* The tiles the driver reports as visible (ants.vision): the agents'      *)
(* tiles and their four neighbours.                                        *)
vision_of(ants) == Range(ants) \cup UNION {Neighbours(a) : a \in Range(ants)}

(* Mutant: an observed tile keeps its counter. *)
visibility_cell_NoReset(old, visible) == IF visible THEN old ELSE old + 1

(* lines 150-153 *)
visibility_cell(old, visible) == IF visible THEN 0 ELSE old + 1

(* update_visibility, lines 142-153 *)
update_visibility(vmap, seen) ==
    [t \in DOMAIN vmap |-> visibility_cell(vmap[t], t \in seen)]

(* Wave.__init__, lines 97-102 *)
Wave(left, width) == [i \in 1 .. width + 1 |-> <<left[1], left[2] + i - 1>>]

(* Mutant: the moved members are not wrapped. *)
wave_move_Unwrapped(locs, direction) ==
    [i \in DOMAIN locs |->
        <<locs[i][1] + move(direction)[1], locs[i][2] + move(direction)[2]>>]

(* Wave.move, lines 104-112 *)
wave_move(locs, direction) ==
    [i \in DOMAIN locs |->
        wrap_loc(<<locs[i][1] + move(direction)[1], locs[i][2] + move(direction)[2]>>)]

(* Mutant: the threshold test of line 409 made strict. *)
enough_ants_Strict(ants) == Len(ants) > 10

(* line 409 *)
enough_ants(ants) == Len(ants) >= 10

(* lines 409-414: add/remove waves *)
wave_step(ws, ants) ==
    IF enough_ants(ants)
      THEN IF ws = <<>>
             THEN <<Wave(<<0, 5>>, 11), Wave(<<0, 23>>, 11)>>
             ELSE ws
      ELSE <<>>

(* ants.map as update() leaves it: water, food, the agents by owner. *)
driver_map(g, ants) ==
    [t \in Tiles |->
        IF t \in g.water THEN WATER
        ELSE IF t \in g.food THEN FOOD
        ELSE IF t \in Range(ants) THEN ANTS
        ELSE IF \E i \in DOMAIN g.enemy_ants : g.enemy_ants[i][1] = t
          THEN g.enemy_ants[CHOOSE i \in DOMAIN g.enemy_ants : g.enemy_ants[i][1] = t][2]
        ELSE LAND]

(* add_to_map, lines 177-185 *)
add_to_map(map, locs, value) ==
    [t \in DOMAIN map |-> IF t \in Range(locs) THEN value ELSE map[t]]

(* lines 423-429: the four add_to_map calls *)
custom_map(map, ants, hill, enemies, ehill) ==
    LET m1 == add_to_map(map, ants, ALLY_ANT)
        m2 == IF hill # None THEN add_to_map(m1, <<hill>>, MY_HILL) ELSE m1
        m3 == add_to_map(m2, enemies, ENEMY_ANT)
    IN IF ehill # None THEN add_to_map(m3, <<ehill>>, ENEMY_HILL) ELSE m3

(* set_stop_locs, lines 155-162 *)
set_stop_locs(stops, map) == stops \cup {t \in DOMAIN map : map[t] = WATER}

(* influence_locs, lines 164-175: the map is scanned in row-major order *)
influence_locs(map) ==
    LET found == ListOf({t \in DOMAIN map : map[t] \in influence_keys})
    IN [i \in DOMAIN found |-> <<found[i], influence_values(map[found[i]])>>]

RECURSIVE Flatten(_)
Flatten(lists) ==
    IF lists = <<>> THEN <<>> ELSE Head(lists) \o Flatten(Tail(lists))

(* lines 435-438: every member of every (moved) wave *)
wave_sources(ws) ==
    LET members == Flatten(ws)
    IN [i \in DOMAIN members |-> <<members[i], influence_values(WAVE)>>]

(* The offsets at Manhattan distance exactly `distance`, line 273 *)
ring(distance) ==
    {o \in (-distance .. distance) \X (-distance .. distance) :
        Abs(o[1]) + Abs(o[2]) = distance}

(* edge_locs, lines 264-278 *)
edge_locs(locs, vmap, view2) ==
    {e \in {wrap_loc(<<loc[1] + o[1], loc[2] + o[2]>>) :
               loc \in Range(locs), o \in ring(IntSqrt(view2) + 1)} :
        vmap[e] >= 5}

(* line 441: (loc, NOT_VISIBLE) for every edge tile *)
frontier_sources(locs, vmap, view2) ==
    LET edges == ListOf(edge_locs(locs, vmap, view2))
    IN [i \in DOMAIN edges |-> <<edges[i], Frac(NOT_VISIBLE, 1)>>]

(* ants.distance: the Manhattan distance on the torus *)
distance(a, b) ==
    LET dr == Abs(a[1] - b[1])
        dc == Abs(a[2] - b[2])
    IN (IF dr < nrows - dr THEN dr ELSE nrows - dr)
       + (IF dc < ncols - dc THEN dc ELSE ncols - dc)

(* hill_defense, lines 320-326 *)
hill_defense(hill, enemies, seen) ==
    IF hill \notin seen \/ \E e \in Range(enemies) : distance(e, hill) <= 7
      THEN <<<<hill, Frac(50, 1)>>>>
      ELSE <<>>

(* do_setup, lines 122-130, for a game layout the driver announces. *)
SetupTurns ==
    /\ pc = "new"
    /\ \E g \in TurnGrids :
          /\ nrows' = g[1]
          /\ ncols' = g[2]
          /\ visibility_map' = [t \in TilesOf(g[1], g[2]) |-> 0]
    /\ game' \in Games
    /\ pc' = "idle"
    /\ UNCHANGED <<my_ants, mmap, orderOnly, influenceOnly, my_hill,
                   enemy_hill, waves, wave_dir, ilocs, history>>

(* do_turn up to line 396 when no hill is known and the driver reports     *)
(* none: ants.my_hills()[0] raises IndexError, which Ants.run catches; the *)
(* turn ends there.                                                        *)
TurnFails ==
    /\ pc = "idle"
    /\ game # <<>>
    /\ Len(history) < MaxTurns
    /\ my_hill = None
    /\ game.my_hills = <<>>
    /\ \E n \in AntCounts :
       \E ants \in {agents_of(game, n)} :
       \E seen \in {vision_of(ants)} :
          /\ visibility_map' = update_visibility(visibility_map, seen)
          /\ history' = Append(history, [count |-> n, seen |-> seen, ok |-> FALSE])
    /\ UNCHANGED <<nrows, ncols, pc, my_ants, mmap, orderOnly, influenceOnly,
                   my_hill, enemy_hill, waves, wave_dir, ilocs, game>>

(* do_turn, lines 385-447: the visibility counters, the hills, the waves,  *)
(* the stop tiles, the class map and the turn's list of sources.           *)
Turn ==
    /\ pc = "idle"
    /\ game # <<>>
    /\ Len(history) < MaxTurns
    /\ my_hill # None \/ game.my_hills # <<>>
    /\ \E n \in AntCounts :
       \E ants \in {agents_of(game, n)} :
       \E seen \in {vision_of(ants)} :
       \E vmap \in {update_visibility(visibility_map, seen)} :
       \E hill \in {IF my_hill = None THEN game.my_hills[1] ELSE my_hill} :
       \E ehill \in {IF enemy_hill = None /\ game.enemy_hills # <<>>
                        THEN game.enemy_hills[1][1] ELSE enemy_hill} :
       \E dir \in {IF my_hill = None
                      THEN (IF hill[1] > 21 THEN "n" ELSE "s") ELSE wave_dir} :
       \E enemies \in {[i \in DOMAIN game.enemy_ants |-> game.enemy_ants[i][1]]} :
       \E ws \in {[i \in DOMAIN wave_step(waves, ants) |->
                      wave_move(wave_step(waves, ants)[i], dir)]} :
       \E map \in {custom_map(driver_map(game, ants), ants, hill, enemies, ehill)} :
          /\ visibility_map' = vmap
          /\ my_hill' = hill
          /\ wave_dir' = dir
          /\ enemy_hill' = ehill
          /\ waves' = ws
          /\ stop_locs' = set_stop_locs(stop_locs, driver_map(game, ants))
          /\ amap' = map
          /\ my_ants' = ants
          /\ ilocs' = influence_locs(map) \o wave_sources(ws)
                        \o frontier_sources(ants, vmap, game.viewradius2)
                        \o hill_defense(hill, enemies, seen)
          /\ history' = Append(history, [count |-> n, seen |-> seen, ok |-> TRUE])
    /\ UNCHANGED <<nrows, ncols, pc, mmap, orderOnly, source, bfs, imap, game>>

NextTurns ==
    \/ SetupTurns
    \/ TurnFails
    \/ Turn

SpecTurns == Init /\ [][NextTurns]_vars

(* map_influence, lines 187-238 and 447: the layers of every source of the *)
(* turn.                                                                   *)
map_influence(map, locs, ants) ==
    [i \in DOMAIN locs |->
        <<build_influence(locs[i][1], map, ants, stop_locs), locs[i][2]>>]

-----------------------------------------------------------------------------
(* Properties of do_turn *)

(* C8: no layer of any source of the turn, layer 0 included, contains a    *)
(* water tile; a source whose four neighbours are all water has no other   *)
(* layer than its origin.                                                  *)
C8_NoWaterInLayers ==
    \A i \in DOMAIN ilocs :
       \A layers \in {build_influence(ilocs[i][1], amap, my_ants, stop_locs)} :
          /\ \A d \in DOMAIN layers : \A t \in Range(layers[d]) : amap[t] # WATER
          /\ (\A t \in Neighbours(ilocs[i][1]) : amap[t] = WATER) =>
                \A d \in DOMAIN layers : d > 1 => layers[d] = <<>>

Turns == Len(history)

(* The number of most recent consecutive turns in which tile t was not     *)
(* among the observed tiles.                                               *)
UnseenFor(t) ==
    IF \E i \in DOMAIN history : t \in history[i].seen
      THEN Turns - (CHOOSE i \in DOMAIN history :
                       /\ t \in history[i].seen
                       /\ \A j \in DOMAIN history : j > i => t \notin history[j].seen)
      ELSE Turns

(* C9: after update_visibility the counter of every tile is the number of  *)
(* consecutive most recent turns in which it was not observed: 0 for a     *)
(* tile observed in the current turn, never negative.                      *)
C9_CounterIsUnseenRun ==
    \A t \in DOMAIN visibility_map :
        /\ visibility_map[t] = UnseenFor(t)
        /\ visibility_map[t] >= 0
        /\ (Turns > 0 /\ t \in history[Turns].seen) => visibility_map[t] = 0

(* C9 witness: a tile that was observed, then unobserved for two turns,    *)
(* while another tile is observed in the current turn, a turn that ran     *)
(* through.                                                                *)
C9_Witness ==
    /\ Turns >= 3
    /\ \E t \in DOMAIN visibility_map :
          /\ t \in history[Turns - 2].seen
          /\ visibility_map[t] = 2
    /\ \E t \in DOMAIN visibility_map : t \in history[Turns].seen
    /\ history[Turns].ok

(* The number of most recent consecutive turns with at least 10 agents. *)
Streak ==
    IF \E i \in DOMAIN history : history[i].count < 10
      THEN Turns - (CHOOSE i \in DOMAIN history :
                       /\ history[i].count < 10
                       /\ \A j \in DOMAIN history : j > i => history[j].count >= 10)
      ELSE Turns

(* C10: after the wave step of a turn the wave list is non-empty exactly   *)
(* when the turn's agent count is at least 10; waves are created once (two *)
(* of them) and then kept: each has moved one row per turn since the count *)
(* reached 10, and they are gone when the count is below 10.               *)
C10_WavesIffEnoughAnts ==
    Turns > 0 /\ history[Turns].ok =>
        /\ waves # <<>> <=> history[Turns].count >= 10
        /\ waves # <<>> =>
              /\ Len(waves) = 2
              /\ \A w \in DOMAIN waves : \A i \in DOMAIN waves[w] :
                    waves[w][i][1] = Streak % nrows

(* C10 witness: waves kept for a second turn, after a turn in which the    *)
(* count was below 10.                                                     *)
C10_Witness ==
    /\ Turns >= 3
    /\ history[Turns].ok
    /\ history[Turns - 2].count < 10
    /\ history[Turns - 1].count >= 10
    /\ history[Turns].count >= 10
    /\ waves # <<>>

-----------------------------------------------------------------------------
(* The sources of a turn, by where do_turn took them from *)

(* line 205: the capacity build_influence gives the source at start_loc *)
source_capacity(start_loc, map, ants) ==
    number_of_influences(map[start_loc], Len(ants))

(* ilocs is influence_locs(amap), then the wave members, then the edge     *)
(* tiles, then the result of hill_defense (lines 432-444).                 *)
MapSources == 1 .. Len(influence_locs(amap))

WaveSources ==
    Len(influence_locs(amap)) + 1 .. Len(influence_locs(amap)) + Len(Flatten(waves))

FrontierSources ==
    Len(influence_locs(amap)) + Len(Flatten(waves)) + 1 ..
    Len(influence_locs(amap)) + Len(Flatten(waves))
        + Cardinality(edge_locs(my_ants, visibility_map, game.viewradius2))

HillSources ==
    Len(influence_locs(amap)) + Len(Flatten(waves))
        + Cardinality(edge_locs(my_ants, visibility_map, game.viewradius2)) + 1 ..
    Len(ilocs)

RanThrough == Turns > 0 /\ history[Turns].ok

(* C11: the capacity a source is spread with is the table entry of its     *)
(* class: 1 for food, 2 for a wave member, 1 for a frontier tile, 4 for my *)
(* hill; only a class without an entry (the enemy hill) uses the number of *)
(* agents.                                                                 *)
C11_CapacityByClass ==
    RanThrough =>
        \A i \in DOMAIN ilocs :
            source_capacity(ilocs[i][1], amap, my_ants) =
                IF i \in WaveSources THEN 2
                ELSE IF i \in FrontierSources THEN 1
                ELSE IF i \in HillSources THEN 4
                ELSE IF amap[ilocs[i][1]] = FOOD THEN 1
                ELSE Len(my_ants)

(* C12: every source is spread with the weight of its class: food 20,      *)
(* enemy hill 50, wave member 5, frontier tile 1/10, my hill 50.           *)
C12_WeightByClass ==
    RanThrough =>
        \A i \in DOMAIN ilocs :
            ilocs[i][2] =
                IF i \in WaveSources THEN Frac(5, 1)
                ELSE IF i \in FrontierSources THEN Frac(1, 10)
                ELSE IF i \in HillSources THEN Frac(50, 1)
                ELSE IF amap[ilocs[i][1]] = FOOD THEN Frac(20, 1)
                ELSE Frac(50, 1)

(* C14: a turn in which no hill of mine is stored and the driver reports   *)
(* none runs through, with no hill source; so does a turn in which no      *)
(* enemy hill is known.                                                    *)
C14_NoHillNoError ==
    Turns > 0 =>
        /\ history[Turns].ok
        /\ my_hill = None => HillSources = {}
        /\ enemy_hill = None => \A i \in MapSources : amap[ilocs[i][1]] # ENEMY_HILL

-----------------------------------------------------------------------------
(* combat_map and the blocked tiles: the end of do_turn, lines 447-459 *)

MaxAllies == 2

CombatGrids == {<<3, 9>>}

(* The layouts the overlay is exercised on: no, one or two enemy agents    *)
(* (two neighbours, so that their zones overlap), water and food out of or *)
(* within their reach, my hill.                                            *)
CombatWaters == {{}, {<<1, 5>>}}
CombatFoods == {{}, {<<2, 4>>}}
CombatEnemies ==
    {<<>>, <<<<<<0, 0>>, 1>>>>, <<<<<<0, 0>>, 1>>, <<<<0, 1>>, 1>>>>}
AllySpots == {<<1, 1>>, <<1, 2>>, <<2, 2>>, <<1, 4>>}

CombatGames ==
    {[water |-> w, food |-> f, my_hills |-> <<<<2, 8>>>>, enemy_hills |-> <<>>,
      enemy_ants |-> e, viewradius2 |-> 1] :
        w \in CombatWaters, f \in CombatFoods, e \in CombatEnemies}

(* line 81 *)
blocked == {FOOD, WATER}

(* line 287 *)
kill_radius == 2

(* The offsets (r - loc[0], c - loc[1]) of the two nested ranges of        *)
(* locs_within, in the order they are run through (lines 256-257).         *)
window(dist) ==
    [k \in 1 .. (2 * dist + 1) * (2 * dist + 1) |->
        <<((k - 1) \div (2 * dist + 1)) - dist,
          ((k - 1) % (2 * dist + 1)) - dist>>]

(* locs_within, lines 252-262 *)
locs_within(loc, dist, true_distance) ==
    LET compare == IF true_distance THEN dist + 1 ELSE dist
        kept == SelectSeq(window(dist),
                          LAMBDA o : Abs(o[1]) + Abs(o[2]) <= compare)
    IN [i \in DOMAIN kept |-> wrap_loc(<<loc[1] + kept[i][1], loc[2] + kept[i][2]>>)]

(* lines 292-295: the tiles one enemy agent can attack after its move *)
enemy_moves(loc) ==
    UNION {Range(locs_within(move_loc_, kill_radius, TRUE)) :
              move_loc_ \in Range(locs_within(loc, 1, FALSE))}

(* lines 288-297: a list; a tile is in it once for every enemy agent that  *)
(* can attack it (the order within one agent's set plays no part).         *)
die_locs(enemies) ==
    Flatten([i \in DOMAIN enemies |-> ListOf(enemy_moves(enemies[i]))])

(* line 303 *)
my_eligible_ants(ants, enemies) ==
    SelectSeq(ants, LAMBDA a : \E e \in Range(enemies) :
                                   distance(a, e) <= kill_radius + 2)

(* line 309 *)
ants_touching(loc, eligible) == \E a \in Range(eligible) : distance(loc, a) = 1

(* lines 305-311 *)
attack_locs(ants, enemies) ==
    LET eligible == my_eligible_ants(ants, enemies)
    IN Flatten([i \in DOMAIN eligible |->
                   locs_within(eligible[i], 1, ants_touching(eligible[i], eligible))])

(* Mutant: the bonus is added, the penalty is left out. *)
overlay_NoPenalty(map, die, attack) ==
    [t \in DOMAIN map |->
        FracAdd(map[t],
                Frac(100 * (IF Count(t, die) > 0 THEN Count(t, attack) ELSE 0), 1))]

(* lines 299-300 and 313-316: -150 for every occurrence in die_locs, +100  *)
(* for every occurrence in attack_locs of a tile that is in die_locs.      *)
overlay(map, die, attack) ==
    [t \in DOMAIN map |->
        FracAdd(map[t],
                Frac(100 * (IF Count(t, die) > 0 THEN Count(t, attack) ELSE 0)
                       - 150 * Count(t, die), 1))]

(* combat_map, lines 280-318 *)
combat_map(map, ants, enemies) ==
    overlay(map, die_locs(enemies), attack_locs(ants, enemies))

(* lines 456-459 *)
block(map, classes) ==
    [t \in DOMAIN map |->
        IF classes[t] \in blocked THEN Frac(-10000, 1) ELSE map[t]]

enemy_ants == [i \in DOMAIN game.enemy_ants |-> game.enemy_ants[i][1]]

SetupCombat ==
    /\ pc = "new"
    /\ \E g \in CombatGrids : nrows' = g[1] /\ ncols' = g[2]
    /\ pc' = "idle"
    /\ UNCHANGED <<my_ants, mmap, orderOnly, influenceOnly, turnOnly>>

(* do_turn, lines 394-444, in a first turn with fewer than ten agents (no  *)
(* wave, and no tile unseen for five turns).                               *)
EnterCombat ==
    /\ pc = "idle"
    /\ \E g \in CombatGames, n \in 0 .. MaxAllies :
       \E ants \in DistinctLists(AllySpots, n) :
       \E enemies \in {[i \in DOMAIN g.enemy_ants |-> g.enemy_ants[i][1]]} :
       \E map \in {custom_map(driver_map(g, ants), ants, g.my_hills[1], enemies, None)} :
          /\ game' = g
          /\ my_ants' = ants
          /\ my_hill' = g.my_hills[1]
          /\ wave_dir' = "s"
          /\ stop_locs' = set_stop_locs(stop_locs, driver_map(g, ants))
          /\ amap' = map
          /\ ilocs' = influence_locs(map)
                        \o hill_defense(g.my_hills[1], enemies, vision_of(ants))
    /\ pc' = "sources"
    /\ UNCHANGED <<nrows, ncols, mmap, orderOnly, source, bfs, imap,
                   visibility_map, enemy_hill, waves, history>>

(* lines 447 and 450: map_influence and add_influence *)
Propagate ==
    /\ pc = "sources"
    /\ \E field \in {add_influence(map_zeros, map_influence(amap, ilocs, my_ants))} :
          imap' = field /\ mmap' = field
    /\ pc' = "combat"
    /\ UNCHANGED <<nrows, ncols, my_ants, orderOnly, amap, stop_locs, source, bfs,
                   turnOnly>>

(* line 453 *)
CombatMap ==
    /\ pc = "combat"
    /\ mmap' = combat_map(mmap, my_ants, enemy_ants)
    /\ pc' = "fought"
    /\ UNCHANGED <<nrows, ncols, my_ants, orderOnly, influenceOnly, turnOnly>>

(* lines 456-459 *)
BlockTiles ==
    /\ pc = "fought"
    /\ mmap' = block(mmap, amap)
    /\ pc' = "scored"
    /\ UNCHANGED <<nrows, ncols, my_ants, orderOnly, influenceOnly, turnOnly>>

NextCombat ==
    \/ SetupCombat
    \/ EnterCombat
    \/ Propagate
    \/ CombatMap
    \/ BlockTiles

SpecCombat == Init /\ [][NextCombat]_vars

-----------------------------------------------------------------------------
(* Properties of the score field *)

FracLess(x, y) == x[1] * y[2] < y[1] * x[2]

(* The tiles -150 was taken from, and those of them +100 was added to. *)
ThreatZone == Range(die_locs(enemy_ants))

Bonus == ThreatZone \cap Range(attack_locs(my_ants, enemy_ants))

(* C13: in the score field handed to issue_orders, a tile in a threat zone *)
(* that got no counter-attack bonus scores strictly lower than every tile  *)
(* in no threat zone with the same propagated value.                       *)
C13_ThreatBelowSafe ==
    pc = "scored" =>
        \A zone \in {ThreatZone}, bonus \in {Bonus} :
        \A t \in zone \ bonus, u \in Tiles \ zone :
            imap[t] = imap[u] => FracLess(mmap[t], mmap[u])

(* C13, amended: ... strictly lower than every tile in no threat zone that *)
(* is neither food nor water and has the same propagated value.            *)
C13_ThreatBelowSafeUnblocked ==
    pc = "scored" =>
        \A zone \in {ThreatZone}, bonus \in {Bonus} :
        \A t \in zone \ bonus, u \in Tiles \ zone :
            imap[t] = imap[u] /\ amap[u] \notin blocked
                => FracLess(mmap[t], mmap[u])

(* C13 witness: a threatened tile without bonus and a safe open tile with  *)
(* the same non-zero propagated value, while another tile got the bonus.   *)
C13_Witness ==
    /\ pc = "scored"
    /\ \E zone \in {ThreatZone}, bonus \in {Bonus} :
          /\ bonus # {}
          /\ \E t \in zone \ bonus, u \in Tiles \ zone :
                imap[t] = imap[u] /\ amap[u] \notin blocked /\ imap[t] # Zero

-----------------------------------------------------------------------------
(* issue_orders on a score field with blocked tiles *)

MaxBlocked == 2

(* do_turn, lines 456-461, and issue_orders, lines 331-334: the food or    *)
(* water tiles (up to MaxBlocked, none of them under an agent) are set to  *)
(* -10000 and the field is handed to issue_orders.                         *)
EnterIssueOrdersBlocked ==
    /\ pc = "idle"
    /\ \E n \in 0 .. MaxAnts : agents' \in DistinctLists(Tiles, n)
    /\ agents' # <<>> => agents'[1] = <<0, 0>>
    /\ \E B \in UpTo(Tiles \ Range(agents'), MaxBlocked), cls \in blocked :
          amap' = [t \in Tiles |-> IF t \in B THEN cls
                                   ELSE IF t \in Range(agents') THEN ALLY_ANT
                                   ELSE LAND]
    /\ \E field \in [Tiles -> 0 .. MaxScore] :
          mmap' = [t \in Tiles |-> IF amap'[t] \in blocked THEN -10000 ELSE field[t]]
    /\ my_ants' = agents'
    /\ prev_destinations' = {}
    /\ level' = 0
    /\ turns_without_order' = 0
    /\ issued' = <<>>
    /\ stays' = {}
    /\ pc' = "loop"
    /\ UNCHANGED <<nrows, ncols, stop_locs, source, bfs, imap, turnOnly>>

NextOrdersBlocked ==
    \/ SetupOrders
    \/ EnterIssueOrdersBlocked
    \/ Escalate
    \/ GiveUp
    \/ Resolve
    \/ Return

SpecOrdersBlocked == Init /\ [][NextOrdersBlocked]_vars

(* C15: no order issued, at any level, has a food or water tile (a tile    *)
(* set to -10000) as its destination.                                      *)
C15_NoOrderIntoBlocked ==
    \A i \in DOMAIN issued : amap[OrderDestination(issued[i])] \notin blocked

(* C15 witness: an agent next to a food or water tile was ordered, after   *)
(* the level had risen, to a tile that is not its first choice.            *)
C15_Witness ==
    /\ level >= 1
    /\ \E i \in DOMAIN issued :
          /\ \E t \in Range(surrounding(issued[i][1])) : amap[t] \in blocked
          /\ OrderDestination(issued[i]) # FirstChoice(issued[i][1])

-----------------------------------------------------------------------------
(* The waves on a grid tall enough for them to travel north *)

TallGrids == {<<23, 2>>}

(* My hill in a row beyond 21 (line 398), nothing else on the map. *)
TallGames ==
    {[water |-> {}, food |-> {}, my_hills |-> <<<<22, 0>>>>, enemy_hills |-> <<>>,
      enemy_ants |-> <<>>, viewradius2 |-> 1]}

SetupTallTurns ==
    /\ pc = "new"
    /\ \E g \in TallGrids :
          /\ nrows' = g[1]
          /\ ncols' = g[2]
          /\ visibility_map' = [t \in TilesOf(g[1], g[2]) |-> 0]
    /\ game' \in TallGames
    /\ pc' = "idle"
    /\ UNCHANGED <<my_ants, mmap, orderOnly, influenceOnly, my_hill,
                   enemy_hill, waves, wave_dir, ilocs, history>>

NextWaves ==
    \/ SetupTurns
    \/ SetupTallTurns
    \/ TurnFails
    \/ Turn

SpecWaves == Init /\ [][NextWaves]_vars

(* A step that is a turn which ran through and in which waves exist. *)
WaveTurn ==
    /\ Len(history') = Len(history) + 1
    /\ history'[Len(history')].ok
    /\ waves' # <<>>

(* Member i of wave w before line 436 moves it: as kept from the turn      *)
(* before, or as created in this turn by lines 411-412.                    *)
MemberBefore(w, i) ==
    IF waves = <<>> THEN <<0, (IF w = 1 THEN 5 ELSE 23) + i - 1>> ELSE waves[w][i]

(* The wave members are the wave sources of the turn, all on the grid. *)
WaveSourcesAreMembers ==
    /\ Cardinality(WaveSources') = Len(Flatten(waves'))
    /\ \A k \in WaveSources' :
          /\ ilocs'[k][1] = Flatten(waves')[k - Len(influence_locs(amap'))]
          /\ ilocs'[k][1] \in Tiles

(* C16: in every turn in which waves exist, the turn of their creation     *)
(* included, every member is moved one step in the travel direction before *)
(* it is used as a source: its row changes by one modulo nrows, its column *)
(* is unchanged, and the coordinates appended to ilocs are on the grid.    *)
C16_WaveMovesOneRow ==
    [][WaveTurn =>
          /\ my_hill # None => wave_dir' = wave_dir
          /\ \A w \in DOMAIN waves' : \A i \in DOMAIN waves'[w] :
                /\ waves'[w][i][1] =
                      (MemberBefore(w, i)[1] + (IF wave_dir' = "n" THEN -1 ELSE 1)) % nrows
                /\ waves'[w][i][2] = MemberBefore(w, i)[2]
          /\ WaveSourcesAreMembers]_vars

(* C16, amended: ... its column is unchanged modulo ncols (the members are *)
(* created on columns 5..16 and 23..34 and wrapped by their first step).   *)
C16_WaveMovesOneRowWrapped ==
    [][WaveTurn =>
          /\ my_hill # None => wave_dir' = wave_dir
          /\ \A w \in DOMAIN waves' : \A i \in DOMAIN waves'[w] :
                /\ waves'[w][i][1] =
                      (MemberBefore(w, i)[1] + (IF wave_dir' = "n" THEN -1 ELSE 1)) % nrows
                /\ waves'[w][i][2] = MemberBefore(w, i)[2] % ncols
          /\ WaveSourcesAreMembers]_vars

(* C16 witness: waves travelling north, kept for a second turn, have       *)
(* wrapped from row 0 to the last row and moved on.                        *)
C16_Witness ==
    /\ wave_dir = "n"
    /\ waves # <<>>
    /\ waves[1][1][1] = nrows - 2
    /\ WaveSources # {}

-----------------------------------------------------------------------------
(* The layers of one source, once more *)

(* C17: the layers build_influence returns are pairwise disjoint, no tile  *)
(* is twice in a layer, and every tile of layer d is at shortest wrapped   *)
(* four-neighbour path length d from the source through tiles that are not *)
(* water; agents and other open tiles neither block nor lengthen a path.   *)
C17_LayersAreDistances ==
    Returned =>
        \A bs \in {Balls(<<{source[1]}>>)}, layers \in {bfs.influence_locs} :
        \A d \in DOMAIN layers : \A i \in DOMAIN layers[d] :
            /\ layers[d][i] \in Reachable(bs)
            /\ Dist(bs, layers[d][i]) = d - 1
            /\ \A e \in DOMAIN layers : \A j \in DOMAIN layers[e] :
                  layers[e][j] = layers[d][i] => e = d /\ j = i

(* C17 witness: a source next to a water tile, spread over three layers or *)
(* more past an agent that did not exhaust its capacity.                   *)
C17_Witness ==
    /\ Returned
    /\ LastLayer >= 3
    /\ bfs.influence_locs[LastLayer + 1] # <<>>
    /\ stop_locs \cap Neighbours(source[1]) # {}
    /\ \E a \in Range(my_ants) : InLayer(a, 1)

-----------------------------------------------------------------------------
(* The level of issue_orders *)

(* A pop at which the counter test of line 342 holds. *)
CounterFires == Popped /\ turns_without_order >= Len(Tail(my_ants)) + 1

(* C18: once the counter test has held at a pop, that pop and every later  *)
(* pop of the run only raise the level: no order is issued, no stay is     *)
(* recorded, the popped agent is not requeued, and the test holds again at *)
(* the next pop.                                                           *)
C18_OnlyRisesAfterCounter ==
    [][CounterFires =>
          /\ level' = level + 1
          /\ issued' = issued
          /\ stays' = stays
          /\ prev_destinations' = prev_destinations
          /\ my_ants' = Tail(my_ants)
          /\ pc' = "loop" /\ my_ants' # <<>> => CounterFires']_vars

(* C18 witness: the counter test has held at a pop after an order was      *)
(* issued, and agents are still queued (the counter exceeds the queue      *)
(* length only after such a pop).                                          *)
C18_Witness ==
    /\ pc = "loop"
    /\ Len(my_ants) >= 1
    /\ turns_without_order > Len(my_ants)
    /\ level >= 1

(* A pop at which the five candidates are ranked (lines 350-357). *)
Ranking == Popped /\ ~NeedsEscalation(Head(my_ants), Tail(my_ants))

(* The sorted list of line 356 has an entry at index level. *)
RankExists ==
    \E i \in 1 .. 5 :
        Cardinality({j \in 1 .. 5 : Precedes(influences(Head(my_ants)), j, i)}) = level

(* C19: the level never decreases, and whenever the five candidates of an  *)
(* agent are ranked the level is in 0..4 and the level-th ranked candidate *)
(* exists.                                                                 *)
C19_LevelInRange ==
    [][/\ level' >= level
       /\ Ranking' => (level' \in 0 .. 4 /\ RankExists')]_vars

(* C19 witness: a ranking at the highest level. *)
C19_Witness == Ranking /\ level = 4 /\ RankExists

=============================================================================
